---- MODULE Spec2Model ----
(***************************************************************************)
(* Digital Maturity Assessment (src/dsa.py): a Streamlit script that is    *)
(* re-run from top to bottom on every user interaction.                    *)
(*                                                                         *)
(* Scores are floats with one decimal.  A score is represented by its      *)
(* number of tenths (4.3 is 43): the value str() and to_csv print.         *)
(***************************************************************************)
EXTENDS Integers, Sequences, FiniteSets, TLC

VARIABLES
    scores,            \* SpecDimension: the list `scores` of one dimension (line 100-109)
    dim_result,        \* SpecDimension: outcome of lines 110-112 on `scores`
    rating_set,        \* SpecOverall: the rating lists of the dimensions, in order
    ov_result,         \* SpecOverall: outcome of lines 93-126 on `rating_set`
    ratings,           \* Spec: the sliders' values, ratings[d][i] (widget state)
    user_name,         \* Spec: the text input's value (widget state)
    history_file,      \* Spec: dma_history.csv, absent or its lines
    event,             \* Spec: the interaction that triggered the last run
    dimension_scores,  \* Spec: the dict dimension_scores at the end of the last run
    score_df,          \* Spec: the summary table shown by the last run
    overall_score,     \* Spec: overall_score of the last run
    radar,             \* Spec: what plot_radar plotted in the last run
    data_row,          \* Spec: the record built by the last run, if it saved
    history_df,        \* Spec: the history shown by the last run
    saved_rows,        \* Spec: the records built by the saves so far, in order
    steps              \* Spec: the number of interactions so far

pure_vars == <<scores, dim_result, rating_set, ov_result>>
session_vars == <<ratings, user_name, history_file, event, dimension_scores,
                  score_df, overall_score, radar, data_row, history_df,
                  saved_rows, steps>>
vars == <<pure_vars, session_vars>>

----------------------------------------------------------------------------
(* Bounds of the model *)

\* longest rating list of one dimension drawn by SpecDimension
MaxLen == 6
\* most ratings, over all dimensions together, of a rating set drawn by SpecOverall
MaxRatings == 4
\* most interactions of one session of Spec
MaxSteps == 2
\* the sliders a session of Spec moves: the first components of each dimension
MovableComponents == 3

----------------------------------------------------------------------------
(* Static configuration *)

\* slider range and default: st.slider(label, 1, 5, 3, ...)
MinRating == 1
MaxRating == 5
DefaultRating == 3

Ratings == MinRating..MaxRating

\* assessment_structure: the dimensions in the dict's insertion order, each
\* with its six components (a component is named by its place in the list)
NumComponents == 6
assessment_structure ==
    <<[dimension |-> "People", components |-> 1..NumComponents],
      [dimension |-> "Process", components |-> 1..NumComponents],
      [dimension |-> "Technology", components |-> 1..NumComponents],
      [dimension |-> "Data", components |-> 1..NumComponents]>>

DimensionIds == 1..Len(assessment_structure)

\* maturity_scale: a dict, so a lookup outside 1..5 is a KeyError
maturity_scale ==
    [level \in 1..5 |->
        CASE level = 1 -> "Initial"
          [] level = 2 -> "Developing"
          [] level = 3 -> "Established"
          [] level = 4 -> "Advanced"
          [] level = 5 -> "Leading"]

----------------------------------------------------------------------------
(* Arithmetic of the aggregation *)

RECURSIVE SumFirst(_, _)
\* the sum of the first n elements of the list xs
SumFirst(xs, n) == IF n = 0 THEN 0 ELSE SumFirst(xs, n - 1) + xs[n]

\* sum(xs): the builtin sum over a list
SumSeq(xs) == SumFirst(xs, Len(xs))

\* Python's round(): the quotient n/d rounded to the nearest integer, an exact
\* tie going to the even neighbour (round-half-to-even).
RoundHalfEven(n, d) ==
    LET q == n \div d
        r == n % d
    IN  IF 2 * r > d THEN q + 1
        ELSE IF 2 * r < d THEN q
        ELSE IF q % 2 = 0 THEN q ELSE q + 1

\* total / count rounded up to the next tenth
Round1Ceil(total, count) == (10 * total + count - 1) \div count

\* round(total / count, 1) in tenths, for integers total and count.  The float
\* total/count is the double nearest the quotient and round(x, 1) rounds the
\* double's exact value; for count < 20 a quotient that lies exactly between
\* two tenths is x.25 or x.75, which a double holds exactly, so the result is
\* the half-even rounding of the exact quotient.
Round1(total, count) == RoundHalfEven(10 * total, count)

\* round(score) for a score given in tenths: x.5 is held exactly by a double,
\* so ties go to the even integer.
RoundScore(tenths) == RoundHalfEven(tenths, 10)

Pending == [status |-> "pending"]

\* Lines 110-112 for one dimension: the average of the list `scores`, rounded
\* to one decimal, and the label looked up at round(avg_score).  An empty list
\* makes sum(scores) / len(scores) divide by zero: Python raises
\* ZeroDivisionError and the script run ends there.
AggregateDimension(ratings_list) ==
    IF Len(ratings_list) = 0
    THEN [status |-> "ZeroDivisionError"]
    ELSE LET avg_score == Round1(SumSeq(ratings_list), Len(ratings_list))
         IN  [status |-> "ok",
              avg_score |-> avg_score,
              label |-> maturity_scale[RoundScore(avg_score)]]

\* the mean of all the ratings of rating_set, rounded to one decimal
OverallScoresRaw(values) ==
    LET all == [i \in 1..Len(rating_set) |-> SumSeq(rating_set[i])]
        count == SumSeq([i \in 1..Len(rating_set) |-> Len(rating_set[i])])
    IN  {Round1(SumSeq(all), count)}

\* round(sum(dimension_scores.values()) / len(dimension_scores), 1), line 126,
\* for a non-empty list of scores in tenths: the set of values a build can
\* produce.  The sum is a float sum of values such as 2.8 that a double does
\* not hold exactly.  When the exact mean is not halfway between two tenths
\* the rounding error cannot move it across, and the result is the nearest
\* tenth.  When it is halfway (x.x5), the result is the tenth below or above
\* according to the sign of the accumulated binary error, which depends on
\* the summation order and differs between interpreters (sum() adds left to
\* right before CPython 3.12 and compensates the error from 3.12 on): both
\* neighbours are outcomes.  Only when every addend is a multiple of 0.5 and
\* the mean is x.25 or x.75 is all of the arithmetic exact, and round() then
\* takes the even tenth.
OverallScores(values) ==
    LET total == SumSeq(values)
        count == Len(values)
        halfway == (2 * total) % count = 0 /\ ((2 * total) \div count) % 2 = 1
        exact == /\ \A i \in 1..count : values[i] % 5 = 0
                 /\ ((2 * total) \div count) % 5 = 0
    IN  IF halfway /\ ~exact
        THEN {total \div count, (total \div count) + 1}
        ELSE {RoundHalfEven(total, count)}

\* Lines 93-126 for a questionnaire whose dimensions hold the rating lists
\* `lists`: the average of every dimension in order (line 110), then the
\* overall score (line 126), the mean of those averages.  The set of
\* outcomes: a dimension without ratings stops the run at line 110, and no
\* dimension at all stops it at line 126, each with ZeroDivisionError.
AggregateAll(lists) ==
    LET results == [i \in 1..Len(lists) |-> AggregateDimension(lists[i])]
    IN  IF \E i \in 1..Len(lists) : results[i].status # "ok"
        THEN {[status |-> "ZeroDivisionError"]}
        ELSE LET values == [i \in 1..Len(lists) |-> results[i].avg_score]
             IN  IF Len(values) = 0
                 THEN {[status |-> "ZeroDivisionError"]}
                 ELSE {[status |-> "ok",
                        dimension_scores |-> values,
                        overall_score |-> o] : o \in OverallScores(values)}

----------------------------------------------------------------------------
(* Text and the history file                                               *)
(*                                                                         *)
(* A str is a sequence of symbols.  A symbol is one character ("7", ",")   *)
(* or a run of characters written as one string ("Overall Score"); a run   *)
(* holds no comma, no double quote and no line break, and a field that     *)
(* holds a run is not a number.                                            *)

Comma == ","
Quote == "\""
Dot == "."
Digits == <<"0", "1", "2", "3", "4", "5", "6", "7", "8", "9">>

Digit(n) == Digits[n + 1]
IsDigit(c) == \E n \in 0..9 : Digits[n + 1] = c
DigitValue(c) == CHOOSE n \in 0..9 : Digits[n + 1] = c

\* the values of a cell: a Python str, a float (in tenths), an int, or NaN
StrCell(text) == [type |-> "str", s |-> text]
FloatCell(tenths) == [type |-> "float", v |-> tenths]
IntCell(n) == [type |-> "int", v |-> n]
NaN == [type |-> "nan"]

\* datetime.now().strftime("%Y-%m-%d %H:%M:%S") for a time `now` seconds into
\* one minute: the date, hour and minute are one run, the seconds two digits.
Strftime(now) == <<"2025-06-01 09:30:", Digit(now \div 10), Digit(now % 10)>>

\* repr of a float with one decimal below 100.0, as to_csv writes it: "4.3"
FormatFloat(tenths) ==
    IF tenths < 100
    THEN <<Digit(tenths \div 10), Dot, Digit(tenths % 10)>>
    ELSE <<Digit(tenths \div 100), Digit((tenths \div 10) % 10), Dot, Digit(tenths % 10)>>

RECURSIVE DoubleQuotes(_)
\* every double quote of the text written twice (csv doublequote=True)
DoubleQuotes(text) ==
    IF text = <<>> THEN <<>>
    ELSE (IF Head(text) = Quote THEN <<Quote, Quote>> ELSE <<Head(text)>>)
         \o DoubleQuotes(Tail(text))

\* csv.QUOTE_MINIMAL, to_csv's default: a field that holds the delimiter or
\* the quote character is written between quotes, any other as it is.
QuoteMinimal(text) ==
    IF \E i \in 1..Len(text) : text[i] \in {Comma, Quote}
    THEN <<Quote>> \o DoubleQuotes(text) \o <<Quote>>
    ELSE text

CsvField(value) ==
    IF value.type = "str" THEN QuoteMinimal(value.s) ELSE FormatFloat(value.v)

RECURSIVE JoinFields(_)
JoinFields(fields) ==
    IF fields = <<>> THEN <<>>
    ELSE IF Len(fields) = 1 THEN Head(fields)
    ELSE Head(fields) \o <<Comma>> \o JoinFields(Tail(fields))

\* the header line and the data line to_csv writes for a one-row frame
CsvHeader(row) == JoinFields([i \in 1..Len(row) |-> QuoteMinimal(<<row[i].key>>)])
CsvLine(row) == JoinFields([i \in 1..Len(row) |-> CsvField(row[i].value)])

RECURSIVE ParseFrom(_, _, _, _, _)
\* the fields of a line as read_csv's tokenizer splits it: a comma outside
\* quotes ends a field, a quote at the start of a field opens a quoted part,
\* inside which "" is one quote and a single quote closes the part.
ParseFrom(line, i, field, quoted, fields) ==
    IF i > Len(line) THEN Append(fields, field)
    ELSE LET c == line[i]
         IN  IF quoted
             THEN IF c = Quote
                  THEN IF i < Len(line) /\ line[i + 1] = Quote
                       THEN ParseFrom(line, i + 2, Append(field, Quote), TRUE, fields)
                       ELSE ParseFrom(line, i + 1, field, FALSE, fields)
                  ELSE ParseFrom(line, i + 1, Append(field, c), TRUE, fields)
             ELSE IF c = Comma
                  THEN ParseFrom(line, i + 1, <<>>, FALSE, Append(fields, field))
                  ELSE IF c = Quote /\ field = <<>>
                       THEN ParseFrom(line, i + 1, field, TRUE, fields)
                       ELSE ParseFrom(line, i + 1, Append(field, c), FALSE, fields)

ParseLine(line) == ParseFrom(line, 1, <<>>, FALSE, <<>>)

\* read_csv's default na_values (keep_default_na=True), those the symbols of
\* the model can spell: a field equal to one of them is read as NaN.
NaValues ==
    {<<>>, <<"N", "A">>, <<"N", "a", "N">>, <<"n", "a", "n">>,
     <<"n", "u", "l", "l">>, <<"N", "U", "L", "L">>}

IsNA(text) == text \in NaValues

IsInt(text) == text # <<>> /\ \A i \in 1..Len(text) : IsDigit(text[i])

\* a decimal with one digit after the point, the form FormatFloat writes
IsDecimal(text) ==
    /\ Len(text) >= 3
    /\ text[Len(text) - 1] = Dot
    /\ \A i \in 1..Len(text) : i # Len(text) - 1 => IsDigit(text[i])

RECURSIVE IntValue(_)
IntValue(text) ==
    IF text = <<>> THEN 0
    ELSE 10 * IntValue(SubSeq(text, 1, Len(text) - 1)) + DigitValue(text[Len(text)])

\* the value of a numeric field in tenths
TenthsValue(text) ==
    IF IsInt(text) THEN 10 * IntValue(text)
    ELSE 10 * IntValue(SubSeq(text, 1, Len(text) - 2)) + DigitValue(text[Len(text)])

\* read_csv's type inference for one column of fields: NaN for the fields in
\* na_values; int64 when every field is an integer; float64 when every field
\* that is not NaN is a number; object (str) otherwise.
InferColumn(texts) ==
    LET n == Len(texts)
        present == {i \in 1..n : ~IsNA(texts[i])}
    IN  IF present = 1..n /\ \A i \in present : IsInt(texts[i])
        THEN [i \in 1..n |-> IntCell(IntValue(texts[i]))]
        ELSE IF \A i \in present : IsInt(texts[i]) \/ IsDecimal(texts[i])
        THEN [i \in 1..n |-> IF i \in present THEN FloatCell(TenthsValue(texts[i])) ELSE NaN]
        ELSE [i \in 1..n |-> IF i \in present THEN StrCell(texts[i]) ELSE NaN]

\* pd.read_csv(history_file) with the defaults: the first line names the
\* columns, every further line is a row, every column is typed by inference.
ReadCsv(lines) ==
    LET columns == ParseLine(lines[1])
        raw == [r \in 1..(Len(lines) - 1) |-> ParseLine(lines[r + 1])]
        typed == [c \in 1..Len(columns) |->
                     InferColumn([r \in 1..Len(raw) |-> raw[r][c]])]
    IN  [columns |-> columns,
         rows |-> [r \in 1..Len(raw) |-> [c \in 1..Len(columns) |-> typed[c][r]]]]

----------------------------------------------------------------------------
(* One run of the script *)

NoFile == [exists |-> FALSE, lines |-> <<>>]
NoRow == <<>>
NoHistory == [columns |-> <<>>, rows |-> <<>>]
Anonymous == <<"Anonymous">>

\* one row of score_df (lines 118-122) for an entry of dimension_scores
ScoreRow(entry) ==
    [Dimension |-> entry.key,
     AverageScore |-> entry.value,
     MaturityLevel |-> maturity_scale[RoundScore(entry.value)]]

\* the places of the entries of scores_dict in ascending order of score, entries
\* of equal score in their own order (a stable sort by "Average Score")
ByScore(scores_dict) ==
    CHOOSE p \in [1..Len(scores_dict) -> 1..Len(scores_dict)] :
        /\ \A i, j \in 1..Len(scores_dict) : i # j => p[i] # p[j]
        /\ \A i, j \in 1..Len(scores_dict) :
              i < j => \/ scores_dict[p[i]].value < scores_dict[p[j]].value
                       \/ /\ scores_dict[p[i]].value = scores_dict[p[j]].value
                          /\ p[i] < p[j]

\* the rows of score_df sorted by score
BuildScoreDfSorted(scores_dict) ==
    [i \in 1..Len(scores_dict) |-> ScoreRow(scores_dict[ByScore(scores_dict)[i]])]

\* score_df (lines 118-122): one row per entry of dimension_scores, built from
\* list(keys()) and list(values()), so in the dict's insertion order
BuildScoreDf(scores_dict) ==
    [i \in 1..Len(scores_dict) |-> ScoreRow(scores_dict[i])]

\* plot_radar without the closing vertex
plot_radar_open(scores_dict) ==
    LET labels == [i \in 1..Len(scores_dict) |-> scores_dict[i].key]
        values == [i \in 1..Len(scores_dict) |-> scores_dict[i].value]
    IN  [polygon |-> [labels |-> labels,
                      values |-> values,
                      angles |-> [k \in 1..Len(labels) |-> k - 1],
                      turn |-> Len(labels)],
         scores_dict |-> scores_dict]

\* plot_radar (lines 132-146): `values` is a new list of the dict's values, to
\* which its own first element is appended; `angles` is np.linspace(0, 2*pi,
\* len(labels) + 1), here the numerators k of the angles k/turn of a full
\* turn; ax.fill and ax.plot draw (angles[k], values[k]).  The dict itself is
\* only read.
plot_radar(scores_dict) ==
    LET labels == [i \in 1..Len(scores_dict) |-> scores_dict[i].key]
        values == [i \in 1..Len(scores_dict) |-> scores_dict[i].value]
        closed == values \o SubSeq(values, 1, 1)
    IN  [polygon |-> [labels |-> labels,
                      values |-> closed,
                      angles |-> [k \in 1..(Len(labels) + 1) |-> k - 1],
                      turn |-> Len(labels)],
         scores_dict |-> scores_dict]

\* data_row with the name field's text as it is
BuildDataRowRaw(now, name, scores_dict, overall) ==
    <<[key |-> "Timestamp", value |-> StrCell(Strftime(now))],
      [key |-> "User", value |-> StrCell(name)]>>
    \o [i \in 1..Len(scores_dict) |->
           [key |-> scores_dict[i].key \o " Score",
            value |-> FloatCell(scores_dict[i].value)]]
    \o <<[key |-> "Overall Score", value |-> FloatCell(overall)]>>

\* data_row (lines 199-205): the dict of the record, in insertion order
BuildDataRow(now, name, scores_dict, overall) ==
    <<[key |-> "Timestamp", value |-> StrCell(Strftime(now))],
      [key |-> "User", value |-> StrCell(IF name # <<>> THEN name ELSE Anonymous)]>>
    \o [i \in 1..Len(scores_dict) |->
           [key |-> scores_dict[i].key \o " Score",
            value |-> FloatCell(scores_dict[i].value)]]
    \o <<[key |-> "Overall Score", value |-> FloatCell(overall)]>>

\* the one-row frame written with mode 'w' whether or not the file exists
SaveRowOverwrite(file, row) ==
    [exists |-> TRUE, lines |-> <<CsvHeader(row), CsvLine(row)>>]

\* lines 207-212: the one-row frame is appended without a header when the
\* file exists, and written with its header when it does not
SaveRow(file, row) ==
    IF file.exists
    THEN [exists |-> TRUE, lines |-> Append(file.lines, CsvLine(row))]
    ELSE [exists |-> TRUE, lines |-> <<CsvHeader(row), CsvLine(row)>>]

\* lines 217-229: the history read back from the file, or the notice that
\* nothing is saved yet
ViewHistory(file) ==
    IF file.exists THEN ReadCsv(file.lines) ELSE NoHistory

\* the lists `scores` the loop of lines 97-109 builds from the sliders' values
\* rs, one per dimension in order
SliderLists(rs) == [d \in DimensionIds |-> rs[d]]

\* What one run of the script (lines 93-229) leaves, for the widget values
\* `rs` and `name`, the history file `file` it finds, `pressed` saying whether
\* the save button triggered the run, the clock `now`, and the outcome `agg`
\* of the aggregation.
RunScript(rs, name, file, pressed, now, agg) ==
    LET scores_dict == [d \in DimensionIds |->
                           [key |-> assessment_structure[d].dimension,
                            value |-> agg.dimension_scores[d]]]
        table == BuildScoreDf(scores_dict)
        plot == plot_radar(scores_dict)
        row == BuildDataRow(now, name, plot.scores_dict, agg.overall_score)
        after == IF pressed THEN SaveRow(file, row) ELSE file
    IN  [dimension_scores |-> plot.scores_dict,
         score_df |-> table,
         overall_score |-> agg.overall_score,
         radar |-> plot.polygon,
         data_row |-> IF pressed THEN row ELSE NoRow,
         history_file |-> after,
         history_df |-> ViewHistory(after)]

\* the variables of Spec, at rest
SessionIdle ==
    /\ ratings = <<>>
    /\ user_name = <<>>
    /\ history_file = NoFile
    /\ event = "off"
    /\ dimension_scores = <<>>
    /\ score_df = <<>>
    /\ overall_score = 0
    /\ radar = <<>>
    /\ data_row = NoRow
    /\ history_df = NoHistory
    /\ saved_rows = <<>>
    /\ steps = 0

----------------------------------------------------------------------------
(* SpecDimension: lines 100-112 as a function of the ratings of one dimension *)

RatingLists(maxlen) == UNION {[1..n -> Ratings] : n \in 0..maxlen}

\* the variables of SpecOverall, at rest
OverallIdle == rating_set = <<>> /\ ov_result = Pending

\* the variables of SpecDimension, at rest
DimensionIdle == scores = <<>> /\ dim_result = Pending

InitDimension ==
    /\ scores \in RatingLists(MaxLen)
    /\ dim_result = Pending
    /\ OverallIdle
    /\ SessionIdle

RunDimension ==
    /\ dim_result = Pending
    /\ dim_result' = AggregateDimension(scores)
    /\ UNCHANGED <<scores, rating_set, ov_result, session_vars>>

NextDimension == RunDimension

SpecDimension == InitDimension /\ [][NextDimension]_vars

----------------------------------------------------------------------------
(* SpecOverall: lines 93-126 as a function of the rating set *)

RECURSIVE RatingSetsOf(_)
\* the rating sets that hold exactly n ratings, every dimension with at least one
RatingSetsOf(n) ==
    IF n = 0 THEN {<<>>}
    ELSE UNION {{Append(rs, list) : rs \in RatingSetsOf(n - k), list \in [1..k -> Ratings]}
                : k \in 1..n}

InitOverall ==
    /\ rating_set \in UNION {RatingSetsOf(n) : n \in 0..MaxRatings}
    /\ ov_result = Pending
    /\ DimensionIdle
    /\ SessionIdle

RunOverall ==
    /\ ov_result = Pending
    /\ \E r \in AggregateAll(rating_set) : ov_result' = r
    /\ UNCHANGED <<rating_set, scores, dim_result, session_vars>>

NextOverall == RunOverall

SpecOverall == InitOverall /\ [][NextOverall]_vars

----------------------------------------------------------------------------
(* Spec: one session of the form *)

\* what a user can type as name or email: nothing, a blank, a plain name, a
\* name with a comma and a quote, and names read_csv takes for NaN or a number
UserNames ==
    {<<>>, <<" ">>, <<"a", "n", "n">>, <<"a", Comma, Quote, "b">>,
     <<"N", "A">>, <<"0", "0", "7">>}

\* the clock at a save, in seconds into the minute
Nows == {7, 30}

\* the outcomes of the aggregation for the sliders' values
Aggregations(rs) == AggregateAll(SliderLists(rs))

\* the variables a run of the script sets, from what RunScript returns
Shown(out) ==
    /\ dimension_scores' = out.dimension_scores
    /\ score_df' = out.score_df
    /\ overall_score' = out.overall_score
    /\ radar' = out.radar
    /\ data_row' = out.data_row
    /\ history_file' = out.history_file
    /\ history_df' = out.history_df

\* The first run: every slider at its default, no name, no history file.
Init ==
    /\ scores = <<>> /\ dim_result = Pending
    /\ rating_set = <<>> /\ ov_result = Pending
    /\ ratings = [d \in DimensionIds |->
                     [i \in assessment_structure[d].components |-> DefaultRating]]
    /\ user_name = <<>>
    /\ event = "open"
    /\ saved_rows = <<>>
    /\ steps = 0
    /\ \E agg \in Aggregations(ratings) :
          \E out \in {RunScript(ratings, user_name, NoFile, FALSE, 0, agg)} :
              /\ dimension_scores = out.dimension_scores
              /\ score_df = out.score_df
              /\ overall_score = out.overall_score
              /\ radar = out.radar
              /\ data_row = out.data_row
              /\ history_file = out.history_file
              /\ history_df = out.history_df

\* a slider move after which the scores of the run before stay on screen
MoveSliderStale(d, i, v) ==
    /\ steps < MaxSteps
    /\ v # ratings[d][i]
    /\ ratings' = [ratings EXCEPT ![d][i] = v]
    /\ event' = "slider"
    /\ steps' = steps + 1
    /\ data_row' = NoRow
    /\ UNCHANGED <<dimension_scores, score_df, overall_score, radar,
                   history_file, history_df>>
    /\ UNCHANGED <<user_name, saved_rows, pure_vars>>

\* The user moves the slider of component i of dimension d to v (lines
\* 104-107): the script runs again with the new value.
MoveSlider(d, i, v) ==
    /\ steps < MaxSteps
    /\ v # ratings[d][i]
    /\ ratings' = [ratings EXCEPT ![d][i] = v]
    /\ event' = "slider"
    /\ steps' = steps + 1
    /\ \E agg \in Aggregations(ratings') :
          \E out \in {RunScript(ratings', user_name, history_file, FALSE, 0, agg)} :
             Shown(out)
    /\ UNCHANGED <<user_name, saved_rows, pure_vars>>

\* The user edits the name field (line 195): the script runs again.
EditName(name) ==
    /\ steps < MaxSteps
    /\ name # user_name
    /\ user_name' = name
    /\ event' = "name"
    /\ steps' = steps + 1
    /\ \E agg \in Aggregations(ratings) :
          \E out \in {RunScript(ratings, name, history_file, FALSE, 0, agg)} :
             Shown(out)
    /\ UNCHANGED <<ratings, saved_rows, pure_vars>>

\* The user presses "Save Assessment to History" (line 197) at time `now`:
\* the script runs again and st.button returns True in that run.
PressSave(now) ==
    /\ steps < MaxSteps
    /\ event' = "save"
    /\ steps' = steps + 1
    /\ \E agg \in Aggregations(ratings) :
          \E out \in {RunScript(ratings, user_name, history_file, TRUE, now, agg)} :
             /\ Shown(out)
             /\ saved_rows' = Append(saved_rows, out.data_row)
    /\ UNCHANGED <<ratings, user_name, pure_vars>>

\* The user downloads the PDF report (lines 185-190): a download button click
\* runs the script again, with no widget value changed.
DownloadReport ==
    /\ steps < MaxSteps
    /\ event' = "download_report"
    /\ steps' = steps + 1
    /\ \E agg \in Aggregations(ratings) :
          \E out \in {RunScript(ratings, user_name, history_file, FALSE, 0, agg)} :
             Shown(out)
    /\ UNCHANGED <<ratings, user_name, saved_rows, pure_vars>>

\* The user downloads the full history (lines 222-227); the button is shown
\* only when the file exists.
DownloadHistory ==
    /\ steps < MaxSteps
    /\ history_file.exists
    /\ event' = "download_history"
    /\ steps' = steps + 1
    /\ \E agg \in Aggregations(ratings) :
          \E out \in {RunScript(ratings, user_name, history_file, FALSE, 0, agg)} :
             Shown(out)
    /\ UNCHANGED <<ratings, user_name, saved_rows, pure_vars>>

Next ==
    \/ \E d \in DimensionIds :
          \E i \in assessment_structure[d].components \cap 1..MovableComponents :
             \E v \in Ratings : MoveSlider(d, i, v)
    \/ \E name \in UserNames : EditName(name)
    \/ \E now \in Nows : PressSave(now)
    \/ DownloadReport
    \/ DownloadHistory

Spec == Init /\ [][Next]_vars

----------------------------------------------------------------------------
(* Properties *)

Abs(x) == IF x < 0 THEN -x ELSE x

\* `tenths` is a tenth nearest to total/count: it differs from the exact
\* quotient by at most 0.05
NearestTenth(tenths, total, count) == 2 * Abs(count * tenths - 10 * total) <= count

\* the level nearest to the exact mean of a list, a tie x.5 going up
HalfUpLevel(list) == (2 * SumSeq(list) + Len(list)) \div (2 * Len(list))

DeclaredDimensions == <<"People", "Process", "Technology", "Data">>

LevelLabels == <<"Initial", "Developing", "Established", "Advanced", "Leading">>

\* the number of records the history file holds
RecordCount(file) == IF file.exists THEN Len(file.lines) - 1 ELSE 0

\* C1: for every non-empty list of ratings in 1..5 of a dimension, the label
\* shown is the label of the exact mean of the ratings rounded to the nearest
\* integer, a mean of exactly x.5 rounded up ([3,3,3,2,2,2] gives
\* "Established").
C1_LabelOfMeanHalfUp ==
    dim_result.status = "ok" =>
        dim_result.label = LevelLabels[HalfUpLevel(scores)]

\* C2: aggregating an empty list of ratings, or an empty set of dimension
\* scores, ends in the outcome ValidationError, never in a division by zero.
C2_EmptyInputRejected ==
    /\ (dim_result # Pending /\ scores = <<>>) =>
           dim_result.status = "ValidationError"
    /\ (ov_result # Pending /\ rating_set = <<>>) =>
           ov_result.status = "ValidationError"

C4_ShownIsCurrent ==
    /\ Len(dimension_scores) = Len(DeclaredDimensions)
    /\ Len(score_df) = Len(DeclaredDimensions)
    /\ \A d \in 1..Len(DeclaredDimensions) :
          /\ dimension_scores[d].key = DeclaredDimensions[d]
          /\ NearestTenth(dimension_scores[d].value, SumSeq(ratings[d]), Len(ratings[d]))
          /\ score_df[d].AverageScore = dimension_scores[d].value
    /\ 2 * Abs(Len(dimension_scores) * overall_score
               - SumSeq([d \in 1..Len(dimension_scores) |-> dimension_scores[d].value]))
          <= Len(dimension_scores)

C4_Witness ==
    /\ event = "slider"
    /\ steps = 2
    /\ ratings[1][1] = 5
    /\ ratings[4][2] = 1
    /\ dimension_scores[1].value = 33
    /\ dimension_scores[4].value = 27

\* C5: starting from an absent history file, after N saves the history read
\* back holds exactly N records, in the order saved, each equal to the record
\* built at its save (and the first save creates the file).
C5_HistoryReadsBackSaved ==
    /\ history_file.exists <=> saved_rows # <<>>
    /\ Len(history_df.rows) = Len(saved_rows)
    /\ \A r \in 1..Len(saved_rows) :
          /\ Len(history_df.rows[r]) = Len(saved_rows[r])
          /\ \A c \in 1..Len(saved_rows[r]) :
                /\ history_df.columns[c] = <<saved_rows[r][c].key>>
                /\ history_df.rows[r][c] = saved_rows[r][c].value

\* C6: for every non-empty list of ratings in 1..5 the dimension score, the
\* mean rounded to one decimal, lies in [1.0, 5.0]; [3,3,3,3,3,3] gives 3.0,
\* [1,5] gives 3.0 and [5,5,5,5,5,1] gives 4.3.
C6_ScoreInRange ==
    dim_result.status = "ok" =>
        /\ 10 <= dim_result.avg_score /\ dim_result.avg_score <= 50
        /\ NearestTenth(dim_result.avg_score, SumSeq(scores), Len(scores))
        /\ scores = <<3, 3, 3, 3, 3, 3>> => dim_result.avg_score = 30
        /\ scores = <<1, 5>> => dim_result.avg_score = 30
        /\ scores = <<5, 5, 5, 5, 5, 1>> => dim_result.avg_score = 43

C6_Witness ==
    /\ dim_result.status = "ok"
    /\ scores = <<5, 5, 5, 5, 5, 1>>
    /\ dim_result.avg_score = 43

\* C7: only the save action changes the stored history: a run triggered by a
\* slider, by the name field or by a download leaves the file as it was, and
\* a run triggered by the save button adds exactly one record after the
\* records already stored.
C7_OnlySaveAppends ==
    [][IF event' = "save"
       THEN /\ history_file'.exists
            /\ RecordCount(history_file') = RecordCount(history_file) + 1
            /\ history_file.exists =>
                  SubSeq(history_file'.lines, 1, Len(history_file.lines))
                     = history_file.lines
       ELSE history_file' = history_file]_vars

C7_Witness ==
    /\ event = "save"
    /\ Len(saved_rows) = 2
    /\ RecordCount(history_file) = 2

C9_TableInDeclaredOrder ==
    /\ Len(score_df) = Len(DeclaredDimensions)
    /\ \A d \in 1..Len(DeclaredDimensions) :
          /\ score_df[d].Dimension = DeclaredDimensions[d]
          /\ NearestTenth(score_df[d].AverageScore, SumSeq(ratings[d]), Len(ratings[d]))
          /\ \E level \in 1..5 :
                /\ score_df[d].MaturityLevel = LevelLabels[level]
                /\ 2 * Abs(10 * level - score_df[d].AverageScore) <= 10

C9_Witness ==
    /\ event = "slider"
    /\ score_df[1].AverageScore > score_df[2].AverageScore
    /\ score_df[2].AverageScore > score_df[4].AverageScore

\* C10: plot_radar plots one vertex per dimension in insertion order and a
\* closing vertex with the first vertex's value at the first vertex's
\* direction, and leaves the dimension_scores mapping as it was.
C10_RadarClosedPolygon ==
    LET n == Len(DeclaredDimensions)
    IN  /\ Len(radar.values) = n + 1
        /\ Len(radar.angles) = n + 1
        /\ radar.labels = DeclaredDimensions
        /\ \A d \in 1..n :
              /\ radar.values[d] = score_df[d].AverageScore
              /\ radar.angles[d] = d - 1
        /\ radar.values[n + 1] = radar.values[1]
        /\ radar.angles[n + 1] - radar.angles[1] = radar.turn
        /\ radar.turn = n
        /\ Len(dimension_scores) = n
        /\ \A d \in 1..n :
              /\ dimension_scores[d].key = DeclaredDimensions[d]
              /\ dimension_scores[d].value = score_df[d].AverageScore

C10_Witness ==
    /\ event = "slider"
    /\ radar.values[1] = 33
    /\ radar.values[2] = 30
    /\ radar.values[5] = 33

====
